---- MODULE Spec2Model ----
(***************************************************************************)
(* Model of the Bazel wrapper commands of the extension                    *)
(* (src/extension/bazel_wrapper_commands.ts) and of the command adapters   *)
(* of the workspace tree (src/workspace-tree/*.ts).                        *)
(*                                                                         *)
(* Every command invocation runs in a slot.  A slot holds the arguments    *)
(* of the running handler call, what the call obtained from its adapter,   *)
(* the task it handed to vscode.tasks.executeTask, the host's state of     *)
(* that task, and, for the build-then-debug flow, the state of the         *)
(* completion listener, of the output query and of the debug launch.       *)
(* Slots run concurrently; they interleave where the code awaits.          *)
(*                                                                         *)
(* kept holds the CommandOptions object an adapter would hand out again;   *)
(* the adapters of the tree build a new object on every call and keep      *)
(* none.  gtest holds the listing a test binary prints and the children    *)
(* parseGtestList makes of it.                                             *)
(*                                                                         *)
(* Spec runs the commands, SpecRepeat runs the test and package commands   *)
(* repeatedly on the same nodes, SpecParse reads the children of a test    *)
(* target.                                                                 *)
(***************************************************************************)
EXTENDS Naturals, Sequences, FiniteSets, TLC

VARIABLES
  slots,   \* the command invocations
  kept,    \* per adapter, the CommandOptions object it keeps between calls
  gtest    \* the listing of a test binary and the tree nodes parsed from it

vars == <<slots, kept, gtest>>

(***************************************************************************)
(* Bounds.                                                                 *)
(***************************************************************************)
\* Number of command invocations of one behaviour.
MaxInv == 2

Slots == 1..MaxInv

(***************************************************************************)
(* Values.                                                                 *)
(***************************************************************************)
\* JavaScript's undefined, where the code expects a string.
Undefined == "undefined"

\* The one workspace of the tree (BazelWorkspaceInfo).
WorkspaceInfo == [bazelWorkspacePath |-> "/ws", workspaceFolder |-> "ws"]

\* `adapter === undefined`: the command was invoked from the command palette.
NoAdapter ==
  [kind |-> "undefined", name |-> "", testName |-> "", options |-> <<>>, targets |-> <<>>]

\* A BazelTargetTreeItem for the target rule `name`.
TargetItem(name) ==
  [kind |-> "target", name |-> name, testName |-> "", options |-> <<>>, targets |-> <<>>]

\* A BazelGTestTreeItem for the sub-test `testName` of the target rule `name`.
GTestItem(name, testName) ==
  [kind |-> "gtest", name |-> name, testName |-> testName, options |-> <<>>,
   targets |-> <<>>]

\* An item of the quick pick (queryQuickPickTargets, queryQuickPickPackage).
QuickPickItem(name) ==
  [kind |-> "quickpick", name |-> name, testName |-> "", options |-> <<>>,
   targets |-> <<>>]

\* Any other implementation of IBazelCommandAdapter, by what it returns.
OtherAdapter(options, targets) ==
  [kind |-> "other", name |-> "", testName |-> "", options |-> options,
   targets |-> targets]

\* BazelTargetTreeItem.getBazelCommandOptions
TargetItemCommandOptions(a) ==
  [options |-> <<>>, targets |-> <<a.name>>, workspaceInfo |-> WorkspaceInfo]

\* Mutant: the filter is passed as a flag and a value, two options.
GTestItemCommandOptions_TwoTokens(a) ==
  [options |-> <<"--gtest_filter", a.testName>>, targets |-> <<a.name>>,
   workspaceInfo |-> WorkspaceInfo]

\* BazelGTestTreeItem.getBazelCommandOptions
GTestItemCommandOptions(a) ==
  [options |-> <<"--gtest_filter=" \o a.testName>>, targets |-> <<a.name>>,
   workspaceInfo |-> WorkspaceInfo]

\* The quick pick items' getBazelCommandOptions: the one picked label, no options.
QuickPickCommandOptions(a) ==
  [options |-> <<>>, targets |-> <<a.name>>, workspaceInfo |-> WorkspaceInfo]

\* Mutant: the adapter hands out one object, the same on every call.
ReturnsNewObject_Kept(a) == FALSE

\* `return { ... }` in getBazelCommandOptions: the adapters evaluate an object
\* literal, with array literals in it, so that a call returns an object no
\* earlier call returned.
ReturnsNewObject(a) == TRUE

\* The object literal getBazelCommandOptions evaluates, from the node's fields.
CommandOptionsLiteral(a) ==
  CASE a.kind = "target" -> TargetItemCommandOptions(a)
    [] a.kind = "gtest" -> GTestItemCommandOptions(a)
    [] a.kind = "quickpick" -> QuickPickCommandOptions(a)
    [] OTHER -> [options |-> a.options, targets |-> a.targets,
                 workspaceInfo |-> WorkspaceInfo]

\* adapter.getBazelCommandOptions(): the object the call returns, as it is now.
getBazelCommandOptions(a) ==
  IF ReturnsNewObject(a) \/ kept[a] = <<>>
    THEN CommandOptionsLiteral(a)
    ELSE kept[a][1]

\* createBazelTask(command, options): the task that runs `bazel <command>`.
createBazelTask(command, options) ==
  [command |-> command, options |-> options.options, targets |-> options.targets,
   workspaceInfo |-> options.workspaceInfo]

(***************************************************************************)
(* The inputs the behaviours draw from.                                    *)
(***************************************************************************)
\* Adapters the host passes to a command (a tree node was clicked).
Adapters ==
  { TargetItem("//a:t"),
    GTestItem("//a:t", "G.c1"),
    OtherAdapter(<<"--foo", "--bar">>, <<>>),
    OtherAdapter(<<"--foo">>, <<"//a:t", "//a:u">>) }

\* The nodes the repeated invocations are made on.
RepeatAdapters ==
  { TargetItem("//a:t"),
    GTestItem("//a:t", "G.c1"),
    OtherAdapter(<<"--foo">>, <<"//a:t", "//a:u">>) }

\* The commands that are invoked repeatedly on one node.
RepeatCommands ==
  {"bazel.testTarget", "bazel.testTargetAsan", "bazel.testTargetWithCoverage",
   "bazel.buildAll", "bazel.testAll"}

\* What showQuickPick offers for a target query and for a package query.
TargetPicks == { QuickPickItem("//a:t") }
PackagePicks == { QuickPickItem("//a") }

\* Exit codes a task's process ends with.
ExitCodes == {0, 1}

\* What BazelCQuery.queryOutputs returns.
QueryResults == { <<>>, <<"/out/t">>, <<"/out/t", "/out/t.dwp">> }

\* bazel.commandLine.commandArgs of the configuration.
ConfigCommandArgs == <<"--keep_going">>

(***************************************************************************)
(* The registered commands (activateWrapperCommands).                      *)
(***************************************************************************)
Registration(handler, suffix, mode, extraArgs) ==
  [handler |-> handler, suffix |-> suffix, mode |-> mode, extraArgs |-> extraArgs]

Commands ==
  [c \in {"bazel.buildTarget", "bazel.buildTargetWithDebugging", "bazel.buildAll",
          "bazel.buildAllRecursive", "bazel.runTarget", "bazel.testTarget",
          "bazel.testTargetDbg", "bazel.testTargetAsan", "bazel.testTargetDbgAsan",
          "bazel.testTargetWithCoverage", "bazel.debugTestTarget",
          "bazel.debugTestTargetAsan", "bazel.testAll", "bazel.testAllRecursive",
          "bazel.testAllRecursiveWithCoverage", "bazel.clean"} |->
    CASE c = "bazel.buildTarget" -> Registration("bazelBuildTarget", "", "", <<>>)
      [] c = "bazel.buildTargetWithDebugging" ->
           Registration("bazelBuildTargetWithDebugging", "", "", <<>>)
      [] c = "bazel.buildAll" -> Registration("buildPackage", ":all", "", <<>>)
      [] c = "bazel.buildAllRecursive" -> Registration("buildPackage", "/...", "", <<>>)
      [] c = "bazel.runTarget" -> Registration("bazelRunTarget", "", "", <<>>)
      [] c = "bazel.testTarget" -> Registration("bazelTestTarget", "", "test", <<>>)
      [] c = "bazel.testTargetDbg" ->
           Registration("bazelTestTarget", "", "test", <<"--compilation_mode=dbg">>)
      [] c = "bazel.testTargetAsan" ->
           Registration("bazelTestTarget", "", "test", <<"--config=clang-asan">>)
      [] c = "bazel.testTargetDbgAsan" ->
           Registration("bazelTestTarget", "", "test",
                        <<"--compilation_mode=dbg", "--config=clang-asan">>)
      [] c = "bazel.testTargetWithCoverage" ->
           Registration("bazelTestTarget", "", "coverage", <<>>)
      [] c = "bazel.debugTestTarget" -> Registration("bazelDebugTestTarget", "", "", <<>>)
      [] c = "bazel.debugTestTargetAsan" ->
           Registration("bazelDebugTestTarget", "", "", <<"--config=clang-asan">>)
      [] c = "bazel.testAll" -> Registration("testPackage", ":all", "test", <<>>)
      [] c = "bazel.testAllRecursive" -> Registration("testPackage", "/...", "test", <<>>)
      [] c = "bazel.testAllRecursiveWithCoverage" ->
           Registration("testPackage", "/...", "coverage", <<>>)
      [] OTHER -> Registration("bazelClean", "", "", <<>>)]

CommandNames == DOMAIN Commands

\* The commands registered with the handler h.
CommandsOf(h) == { c \in CommandNames : Commands[c].handler = h }

(***************************************************************************)
(* A slot: one invocation of a registered command.                         *)
(***************************************************************************)
\* The arguments of one call of a handler function.
Frame(handler, adapter, suffix, mode, extraArgs) ==
  [handler |-> handler, adapter |-> adapter, suffix |-> suffix, mode |-> mode,
   extraArgs |-> extraArgs]

\* The slot before its command is invoked.  The fields that hold at most one
\* value are sequences of length 0 or 1.
BlankSlot(i) ==
  [id |-> i,
   pc |-> "idle",          \* idle, prompt, awaitExec, listening, stopped, querying, done, error
   command |-> "",         \* the registered command that was invoked
   adapter |-> NoAdapter,  \* the adapter the host passed to it
   call |-> <<>>,          \* the arguments of the innermost handler call
   prompt |-> "",          \* what the open quick pick offers: targets or packages
   prompts |-> 0,          \* calls of showQuickPick
   picked |-> <<>>,        \* the item the user picked
   cancelled |-> FALSE,    \* the user cancelled the quick pick
   reentries |-> 0,        \* calls of the handler by itself
   obtained |-> <<>>,      \* the value getBazelCommandOptions returned, as returned
   commandOptions |-> <<>>,\* that same value, as it is now
   tasks |-> <<>>,         \* the tasks handed to vscode.tasks.executeTask
   ended |-> FALSE,        \* the host: the task's process has ended
   exitCode |-> 0,         \* the host: with this exit code
   execution |-> <<>>,     \* the TaskExecution the flow awaited
   target |-> "",          \* the flow's target label
   listening |-> FALSE,    \* the flow's onDidEndTaskProcess listener is registered
   ignored |-> FALSE,      \* the listener was called with an event it left alone
   heard |-> <<>>,         \* the events the listener acted on
   queries |-> <<>>,       \* the calls of queryOutputs
   outputs |-> <<>>,       \* what queryOutputs returned
   launches |-> <<>>,      \* the calls of vscode.debug.startDebugging
   message |-> "",         \* shown by showInformationMessage
   error |-> "",           \* the error the handler threw
   settled |-> FALSE]      \* the promise the handler returned has settled

\* vscode.window.showQuickPick(...) is called and awaited.
showQuickPick(s, frame, offer) ==
  [s EXCEPT !.pc = "prompt", !.call = <<frame>>, !.prompt = offer, !.prompts = @ + 1]

\* const commandOptions = adapter.getBazelCommandOptions();
Obtain(s, frame, commandOptions) ==
  [s EXCEPT !.call = <<frame>>, !.obtained = <<commandOptions>>,
            !.commandOptions = <<commandOptions>>]

\* vscode.tasks.executeTask(task): the host starts the task; its execution is
\* a new object, here named by the slot and the task.
executeTask(s, task) == [s EXCEPT !.tasks = Append(@, task)]

\* The handler returns; the promise of the async function resolves.
Return(s) == [s EXCEPT !.pc = "done", !.settled = TRUE]

\* The handler throws; the promise of the async function rejects.
Throw(s, msg) == [s EXCEPT !.pc = "error", !.error = msg, !.settled = TRUE]

\* The handler calls itself.
Reenter(s) == [s EXCEPT !.reentries = @ + 1]

(***************************************************************************)
(* The handlers.  Each operator is the handler's code up to its first      *)
(* await (or to its end), applied to the slot s.                           *)
(***************************************************************************)
\* bazelBuildTarget(adapter)
bazelBuildTarget(s, adapter) ==
  LET frame == Frame("bazelBuildTarget", adapter, "", "", <<>>) IN
  IF adapter = NoAdapter
    THEN showQuickPick(s, frame, "targets")
    ELSE LET commandOptions == getBazelCommandOptions(adapter)
             task == createBazelTask("build", commandOptions)
         IN Return(executeTask(Obtain(s, frame, commandOptions), task))

\* Mutant: the result of the quick pick is not tested before the re-entry.
bazelBuildTargetPicked_NoTest(s, quickPick) ==
  bazelBuildTarget(Reenter(s), quickPick)

\* Mutant: the handler re-enters itself with its own (undefined) adapter.
bazelBuildTargetPicked_SameAdapter(s, quickPick) ==
  IF quickPick # NoAdapter
    THEN bazelBuildTarget(Reenter(s), s.call[1].adapter)
    ELSE Return(s)

\* bazelBuildTarget after showQuickPick resolved.
bazelBuildTargetPicked(s, quickPick) ==
  IF quickPick # NoAdapter
    THEN bazelBuildTarget(Reenter(s), quickPick)
    ELSE Return(s)

\* vscode.debug.startDebugging(folder, config)
startDebugging(s, config) == [s EXCEPT !.launches = Append(@, config)]

\* bazelBuildTargetWithDebugging(adapter)
bazelBuildTargetWithDebugging(s, adapter) ==
  LET frame == Frame("bazelBuildTargetWithDebugging", adapter, "", "", <<>>) IN
  IF adapter = NoAdapter
    THEN showQuickPick(s, frame, "targets")
    ELSE LET commandOptions == getBazelCommandOptions(adapter)
             fullArgs == ConfigCommandArgs \o commandOptions.targets
                           \o commandOptions.options
         IN Return(startDebugging(Obtain(s, frame, commandOptions),
                     [name |-> "On-demand Bazel Build Debug",
                      type |-> "bazel-launch-build",
                      request |-> "launch",
                      program |-> "",
                      args |-> fullArgs,
                      cwd |-> commandOptions.workspaceInfo.bazelWorkspacePath]))

\* bazelBuildTargetWithDebugging after showQuickPick resolved.
bazelBuildTargetWithDebuggingPicked(s, quickPick) ==
  IF quickPick # NoAdapter
    THEN bazelBuildTargetWithDebugging(Reenter(s), quickPick)
    ELSE Return(s)

\* Mutant: only the first target gets the suffix.
WithSuffix_FirstOnly(targets, suffix) ==
  [k \in 1..Len(targets) |-> IF k = 1 THEN targets[k] \o suffix ELSE targets[k]]

\* commandOptions.targets.map((s) => s + suffix)
WithSuffix(targets, suffix) == [k \in 1..Len(targets) |-> targets[k] \o suffix]

\* buildPackage(suffix, adapter)
buildPackage(s, suffix, adapter) ==
  LET frame == Frame("buildPackage", adapter, suffix, "", <<>>) IN
  IF adapter = NoAdapter
    THEN showQuickPick(s, frame, "packages")
    ELSE LET commandOptions == getBazelCommandOptions(adapter)
             allCommandOptions ==
               [options |-> commandOptions.options,
                targets |-> WithSuffix(commandOptions.targets, suffix),
                workspaceInfo |-> commandOptions.workspaceInfo]
             task == createBazelTask("build", allCommandOptions)
         IN Return(executeTask(Obtain(s, frame, commandOptions), task))

\* buildPackage after showQuickPick resolved.
buildPackagePicked(s, suffix, quickPick) ==
  IF quickPick # NoAdapter
    THEN buildPackage(Reenter(s), suffix, quickPick)
    ELSE Return(s)

\* bazelRunTarget(adapter)
bazelRunTarget(s, adapter) ==
  LET frame == Frame("bazelRunTarget", adapter, "", "", <<>>) IN
  IF adapter = NoAdapter
    THEN showQuickPick(s, frame, "targets")
    ELSE LET commandOptions == getBazelCommandOptions(adapter)
             task == createBazelTask("run", commandOptions)
         IN Return(executeTask(Obtain(s, frame, commandOptions), task))

\* bazelRunTarget after showQuickPick resolved.
bazelRunTargetPicked(s, quickPick) ==
  IF quickPick # NoAdapter
    THEN bazelRunTarget(Reenter(s), quickPick)
    ELSE Return(s)

\* commandOptions.options.map((opt) => "--test_arg=" + opt)
TestArgs(options) == [k \in 1..Len(options) |-> "--test_arg=" \o options[k]]

\* Mutant: the extra arguments are pushed before the options are mapped.
TestOptions_PushThenMap(commandOptions, extraArgs) ==
  [commandOptions EXCEPT !.options = TestArgs(@ \o extraArgs)]

\* The two statements of bazelTestTarget that set commandOptions.options: the
\* property of the obtained value is assigned the mapped array, and the extra
\* arguments are pushed onto that array.
TestOptions(commandOptions, extraArgs) ==
  [commandOptions EXCEPT !.options = TestArgs(@) \o extraArgs]

\* bazelTestTarget(adapter, mode, ...extraArgs)
bazelTestTarget(s, adapter, mode, extraArgs) ==
  LET frame == Frame("bazelTestTarget", adapter, "", mode, extraArgs) IN
  IF adapter = NoAdapter
    THEN showQuickPick(s, frame, "targets")
    ELSE LET obtained == getBazelCommandOptions(adapter)
             commandOptions == TestOptions(obtained, extraArgs)
             task == createBazelTask(mode, commandOptions)
         IN Return(executeTask(
                     [Obtain(s, frame, obtained) EXCEPT
                        !.commandOptions = <<commandOptions>>], task))

\* The arguments bazelTestTarget passes to itself: (quickPick, mode).
bazelTestTargetReentryArgs(extraArgs) == <<>>

\* bazelTestTarget after showQuickPick resolved.
bazelTestTargetPicked(s, mode, extraArgs, quickPick) ==
  IF quickPick # NoAdapter
    THEN bazelTestTarget(Reenter(s), quickPick, mode,
                         bazelTestTargetReentryArgs(extraArgs))
    ELSE Return(s)

\* Mutant: only an empty list of targets is refused.
InvalidTargetCount_OnlyEmpty(commandOptions) == Len(commandOptions.targets) = 0

\* if (commandOptions.targets.length != 1)
InvalidTargetCount(commandOptions) == Len(commandOptions.targets) # 1

\* Mutant: the command options are forwarded to the build step too.
DebugBuildOptions_Forwarded(commandOptions, extraArgs) ==
  <<"--compilation_mode", "dbg">> \o extraArgs \o commandOptions.options

\* options: ["--compilation_mode", "dbg", ...extraArgs]: the command options
\* are left out of the build task.
DebugBuildOptions(commandOptions, extraArgs) ==
  <<"--compilation_mode", "dbg">> \o extraArgs

\* bazelDebugTestTarget(adapter, ...extraArgs), up to `await executeTask(task)`.
bazelDebugTestTarget(s, adapter, extraArgs) ==
  LET frame == Frame("bazelDebugTestTarget", adapter, "", "", extraArgs) IN
  IF adapter = NoAdapter
    THEN showQuickPick(s, frame, "targets")
    ELSE LET commandOptions == getBazelCommandOptions(adapter)
             got == Obtain(s, frame, commandOptions)
         IN IF InvalidTargetCount(commandOptions)
              THEN Throw(got, "bug: invalid number of targets passed to bazelDebugTestTarget")
              ELSE LET target == commandOptions.targets[1]
                       task == createBazelTask("build",
                                 [options |-> DebugBuildOptions(commandOptions, extraArgs),
                                  targets |-> commandOptions.targets,
                                  workspaceInfo |-> commandOptions.workspaceInfo])
                   IN [executeTask(got, task) EXCEPT !.pc = "awaitExec",
                                                     !.target = target]

\* The arguments bazelDebugTestTarget passes to itself: (quickPick).
bazelDebugTestTargetReentryArgs(extraArgs) == <<>>

\* bazelDebugTestTarget after showQuickPick resolved.
bazelDebugTestTargetPicked(s, extraArgs, quickPick) ==
  IF quickPick # NoAdapter
    THEN bazelDebugTestTarget(Reenter(s), quickPick,
                              bazelDebugTestTargetReentryArgs(extraArgs))
    ELSE Return(s)

\* The TaskExecution of the task the slot s handed to executeTask: a new object
\* per call, so the slot's id is its identity.
ExecutionOf(s) == [id |-> s.id, task |-> s.tasks[Len(s.tasks)]]

\* `await vscode.tasks.executeTask(task)` resolves: the flow holds the execution
\* and registers its onDidEndTaskProcess listener.
executeTaskResolved(s) ==
  [s EXCEPT !.pc = "listening", !.execution = <<ExecutionOf(s)>>, !.listening = TRUE]

\* Mutant: the event is matched by the target labels of its task.
IsOwnExecution_ByTarget(s, event) ==
  event.execution.task.targets = s.execution[1].task.targets

\* if (event.execution === execution)
IsOwnExecution(s, event) == event.execution = s.execution[1]

\* Mutant: the exit code is not looked at.
BuildFailed_Never(event) == FALSE

\* Mutant: the test of the exit code is inverted.
BuildFailed_Inverted(event) == event.exitCode = 0

\* if (event.exitCode !== 0)
BuildFailed(event) == event.exitCode # 0

\* disposable.dispose()
Dispose(s) == [s EXCEPT !.listening = FALSE]

\* query.queryOutputs(target, ["--compilation_mode", "dbg"]) is called and awaited.
queryOutputs(s, target, options) ==
  [s EXCEPT !.pc = "querying",
            !.queries = Append(@, [target |-> target, options |-> options])]

\* The listener of the flow in slot s, called with a task-process-end event.
onDidEndTaskProcess(s, event) ==
  IF ~s.listening THEN s
  ELSE IF IsOwnExecution(s, event)
    THEN LET d == [Dispose(s) EXCEPT !.heard = Append(@, event)] IN
         IF BuildFailed(event)
           THEN [d EXCEPT !.pc = "stopped"]
           ELSE queryOutputs(d, s.target, <<"--compilation_mode", "dbg">>)
    ELSE [s EXCEPT !.ignored = TRUE]

\* outputs[0]
First(outputs) == IF Len(outputs) >= 1 THEN outputs[1] ELSE Undefined

\* The listener after queryOutputs returned: the launch configuration is built,
\* startDebugging is called and the flow's promise is resolved with its result.
queryOutputsResolved(s, outputs) ==
  LET commandOptions == s.commandOptions[1]
      config == [name |-> "Debug Test Target: " \o s.target,
                 type |-> "lldb",
                 request |-> "launch",
                 program |-> First(outputs),
                 args |-> commandOptions.options,
                 cwd |-> commandOptions.workspaceInfo.bazelWorkspacePath]
  IN Return([startDebugging(s, config) EXCEPT !.outputs = <<outputs>>])

\* testPackage(suffix, adapter, mode)
testPackage(s, suffix, adapter, mode) ==
  LET frame == Frame("testPackage", adapter, suffix, mode, <<>>) IN
  IF adapter = NoAdapter
    THEN showQuickPick(s, frame, "packages")
    ELSE LET commandOptions == getBazelCommandOptions(adapter)
             allCommandOptions ==
               [options |-> commandOptions.options,
                targets |-> WithSuffix(commandOptions.targets, suffix),
                workspaceInfo |-> commandOptions.workspaceInfo]
             task == createBazelTask(mode, allCommandOptions)
         IN Return(executeTask(Obtain(s, frame, commandOptions), task))

\* testPackage after showQuickPick resolved.
testPackagePicked(s, suffix, mode, quickPick) ==
  IF quickPick # NoAdapter
    THEN testPackage(Reenter(s), suffix, quickPick, mode)
    ELSE Return(s)

\* BazelWorkspaceInfo.fromWorkspaceFolders() found no workspace.
NoWorkspace == [bazelWorkspacePath |-> Undefined, workspaceFolder |-> Undefined]

\* Mutant: bazelClean awaits the end of the task it submitted.
bazelClean_AwaitsTask(s, workspaceInfo) ==
  LET frame == Frame("bazelClean", NoAdapter, "", "", <<>>) IN
  IF workspaceInfo = NoWorkspace
    THEN Return([s EXCEPT !.call = <<frame>>,
                   !.message = "Please open a Bazel workspace folder to use this command."])
    ELSE LET task == createBazelTask("clean",
                       [options |-> <<>>, targets |-> <<>>,
                        workspaceInfo |-> workspaceInfo])
         IN [executeTask([s EXCEPT !.call = <<frame>>], task) EXCEPT !.pc = "awaitExec"]

\* bazelClean(), given what BazelWorkspaceInfo.fromWorkspaceFolders() resolved to.
bazelClean(s, workspaceInfo) ==
  LET frame == Frame("bazelClean", NoAdapter, "", "", <<>>) IN
  IF workspaceInfo = NoWorkspace
    THEN Return([s EXCEPT !.call = <<frame>>,
                   !.message = "Please open a Bazel workspace folder to use this command."])
    ELSE LET task == createBazelTask("clean",
                       [options |-> <<>>, targets |-> <<>>,
                        workspaceInfo |-> workspaceInfo])
         IN Return(executeTask([s EXCEPT !.call = <<frame>>], task))

\* The continuation of the handler call that awaits the quick pick of slot s.
Picked(s, quickPick) ==
  LET f == s.call[1] IN
  CASE f.handler = "bazelBuildTarget" -> bazelBuildTargetPicked(s, quickPick)
    [] f.handler = "bazelBuildTargetWithDebugging" ->
         bazelBuildTargetWithDebuggingPicked(s, quickPick)
    [] f.handler = "buildPackage" -> buildPackagePicked(s, f.suffix, quickPick)
    [] f.handler = "bazelRunTarget" -> bazelRunTargetPicked(s, quickPick)
    [] f.handler = "bazelTestTarget" ->
         bazelTestTargetPicked(s, f.mode, f.extraArgs, quickPick)
    [] f.handler = "bazelDebugTestTarget" ->
         bazelDebugTestTargetPicked(s, f.extraArgs, quickPick)
    [] OTHER -> testPackagePicked(s, f.suffix, f.mode, quickPick)

\* The items the open quick pick of slot s offers.
Offered(s) == IF s.prompt = "packages" THEN PackagePicks ELSE TargetPicks

\* The callback registered for the command c, called with the adapter a.
Registered(s, c, a) ==
  LET r == Commands[c] IN
  CASE r.handler = "bazelBuildTarget" -> bazelBuildTarget(s, a)
    [] r.handler = "bazelBuildTargetWithDebugging" -> bazelBuildTargetWithDebugging(s, a)
    [] r.handler = "buildPackage" -> buildPackage(s, r.suffix, a)
    [] r.handler = "bazelRunTarget" -> bazelRunTarget(s, a)
    [] r.handler = "bazelTestTarget" -> bazelTestTarget(s, a, r.mode, r.extraArgs)
    [] r.handler = "bazelDebugTestTarget" -> bazelDebugTestTarget(s, a, r.extraArgs)
    [] OTHER -> testPackage(s, r.suffix, a, r.mode)

(***************************************************************************)
(* The listing of a test binary and its parser                             *)
(* (BazelTargetTreeItem.getChildren, parseGtestList).                      *)
(***************************************************************************)
\* Bound: the number of lines the test binary prints.
MaxLines == 5

\* A test suite and a test of the binary; a test may have a value parameter,
\* which the listing prints as a comment.
Group(name) == [kind |-> "group", name |-> name, comment |-> <<>>]
Case(name, comment) == [kind |-> "case", name |-> name, comment |-> comment]

\* What `--gtest_list_tests` prints for a suite and for a test.
PrintLine(e) ==
  IF e.kind = "group"
    THEN e.name
    ELSE "  " \o e.name \o (IF e.comment = <<>> THEN "" ELSE "  # " \o e.comment[1])

\* The stdout of `--gtest_list_tests`: every line ends with a newline.
RECURSIVE PrintLines(_)
PrintLines(tests) ==
  IF tests = <<>> THEN "" ELSE PrintLine(Head(tests)) \o "\n" \o PrintLines(Tail(tests))

\* String.prototype.startsWith
startsWith(str, prefix) ==
  Len(str) >= Len(prefix) /\ SubSeq(str, 1, Len(prefix)) = prefix

\* The white space String.prototype.trim removes.
WhiteSpace == {" ", "\t", "\r", "\n"}

\* String.prototype.trim
RECURSIVE trim(_)
trim(str) ==
  IF str = "" THEN str
  ELSE IF SubSeq(str, 1, 1) \in WhiteSpace THEN trim(SubSeq(str, 2, Len(str)))
  ELSE IF SubSeq(str, Len(str), Len(str)) \in WhiteSpace
    THEN trim(SubSeq(str, 1, Len(str) - 1))
  ELSE str

\* String.prototype.split with a separator of one character: the pieces between
\* all the separators.
RECURSIVE split(_, _)
split(str, sep) ==
  LET at == { k \in 1..Len(str) : SubSeq(str, k, k) = sep } IN
  IF at = {} THEN <<str>>
  ELSE LET k == CHOOSE n \in at : \A o \in at : n <= o
       IN <<SubSeq(str, 1, k - 1)>> \o split(SubSeq(str, k + 1, Len(str)), sep)

\* new BazelGTestTreeItem(resources, workspaceInfo, target, testName, comment?)
BazelGTestTreeItem(target, testName, comment) ==
  [node |-> GTestItem(target, testName), comment |-> comment]

\* Mutant: currentTestGroup is declared without a value.
InitialTestGroup_Unset == Undefined

\* let currentTestGroup: string = "";
InitialTestGroup == ""

\* Mutant: a line that does not start with two spaces is pushed as a test too.
parseLine_HeaderIsTest(st, line, target) ==
  IF startsWith(line, "  ")
    THEN LET parts == split(line, "#") IN
         IF Len(parts) = 2
           THEN [st EXCEPT !.allTests =
                   Append(@, BazelGTestTreeItem(target,
                               st.currentTestGroup \o trim(parts[1]),
                               <<trim(parts[2])>>))]
           ELSE [st EXCEPT !.allTests =
                   Append(@, BazelGTestTreeItem(target,
                               st.currentTestGroup \o trim(parts[1]), <<>>))]
    ELSE [st EXCEPT !.currentTestGroup = trim(line),
                    !.allTests = Append(@, BazelGTestTreeItem(target, trim(line), <<>>))]

\* The callback of input.split("\n").forEach in parseGtestList.
parseLine(st, line, target) ==
  IF startsWith(line, "  ")
    THEN LET parts == split(line, "#") IN
         IF Len(parts) = 2
           THEN [st EXCEPT !.allTests =
                   Append(@, BazelGTestTreeItem(target,
                               st.currentTestGroup \o trim(parts[1]),
                               <<trim(parts[2])>>))]
           ELSE [st EXCEPT !.allTests =
                   Append(@, BazelGTestTreeItem(target,
                               st.currentTestGroup \o trim(parts[1]), <<>>))]
    ELSE [st EXCEPT !.currentTestGroup = trim(line)]

\* Array.prototype.forEach with the callback parseLine.
RECURSIVE forEach(_, _, _)
forEach(lines, st, target) ==
  IF lines = <<>>
    THEN st
    ELSE forEach(Tail(lines), parseLine(st, Head(lines), target), target)

\* parseGtestList(input) of the tree node of the target.
parseGtestList(input, target) ==
  forEach(split(input, "\n"),
          [currentTestGroup |-> InitialTestGroup, allTests |-> <<>>], target).allTests

(***************************************************************************)
(* The state machine.                                                      *)
(***************************************************************************)
\* Everything the handlers call getBazelCommandOptions on.
Nodes == Adapters \cup RepeatAdapters \cup TargetPicks \cup PackagePicks

\* No test binary was asked for its listing.
NoListing == [tests |-> <<>>, pc |-> "idle", stdout |-> "", children |-> <<>>]

Init ==
  /\ slots = [i \in Slots |-> BlankSlot(i)]
  /\ kept = [a \in Nodes |-> <<>>]
  /\ gtest = NoListing

\* The first invocation draws from every command and every adapter.  The
\* invocations concurrent with it draw from the build and the debug command on
\* nodes of the same target: the ones whose tasks and listeners can meet.
ConcurrentCommands == {"bazel.buildTarget", "bazel.debugTestTarget"}

ConcurrentAdapters == { TargetItem("//a:t") }

\* The commands with handler h that slot i may be invoked with.
CommandsIn(i, h) ==
  IF i = 1 THEN CommandsOf(h) ELSE CommandsOf(h) \cap ConcurrentCommands

\* What the host passes to the command of slot i: a tree node, or nothing.
ArgumentsIn(i) ==
  (IF i = 1 THEN Adapters ELSE ConcurrentAdapters) \cup {NoAdapter}

\* The object the adapter of the slot's call keeps, after the call: the
\* handler's assignments to commandOptions reach it when the adapter handed out
\* the object it keeps.
KeptAfter(s) ==
  IF s.obtained # <<>> /\ ~ReturnsNewObject(s.call[1].adapter)
    THEN [kept EXCEPT ![s.call[1].adapter] = s.commandOptions]
    ELSE kept

\* The host calls the registered command c with the adapter a in slot i.
Invoked(i, c, a) == [slots[i] EXCEPT !.command = c, !.adapter = a]

BuildTarget(i) ==
  /\ slots[i].pc = "idle"
  /\ \E c \in CommandsIn(i, "bazelBuildTarget"), a \in ArgumentsIn(i) :
       slots' = [slots EXCEPT ![i] = Registered(Invoked(i, c, a), c, a)]
  /\ kept' = KeptAfter(slots'[i])
  /\ UNCHANGED gtest

BuildTargetWithDebugging(i) ==
  /\ slots[i].pc = "idle"
  /\ \E c \in CommandsIn(i, "bazelBuildTargetWithDebugging"), a \in ArgumentsIn(i) :
       slots' = [slots EXCEPT ![i] = Registered(Invoked(i, c, a), c, a)]
  /\ kept' = KeptAfter(slots'[i])
  /\ UNCHANGED gtest

BuildPackage(i) ==
  /\ slots[i].pc = "idle"
  /\ \E c \in CommandsIn(i, "buildPackage"), a \in ArgumentsIn(i) :
       slots' = [slots EXCEPT ![i] = Registered(Invoked(i, c, a), c, a)]
  /\ kept' = KeptAfter(slots'[i])
  /\ UNCHANGED gtest

RunTarget(i) ==
  /\ slots[i].pc = "idle"
  /\ \E c \in CommandsIn(i, "bazelRunTarget"), a \in ArgumentsIn(i) :
       slots' = [slots EXCEPT ![i] = Registered(Invoked(i, c, a), c, a)]
  /\ kept' = KeptAfter(slots'[i])
  /\ UNCHANGED gtest

TestTarget(i) ==
  /\ slots[i].pc = "idle"
  /\ \E c \in CommandsIn(i, "bazelTestTarget"), a \in ArgumentsIn(i) :
       slots' = [slots EXCEPT ![i] = Registered(Invoked(i, c, a), c, a)]
  /\ kept' = KeptAfter(slots'[i])
  /\ UNCHANGED gtest

DebugTestTarget(i) ==
  /\ slots[i].pc = "idle"
  /\ \E c \in CommandsIn(i, "bazelDebugTestTarget"), a \in ArgumentsIn(i) :
       slots' = [slots EXCEPT ![i] = Registered(Invoked(i, c, a), c, a)]
  /\ kept' = KeptAfter(slots'[i])
  /\ UNCHANGED gtest

TestPackage(i) ==
  /\ slots[i].pc = "idle"
  /\ \E c \in CommandsIn(i, "testPackage"), a \in ArgumentsIn(i) :
       slots' = [slots EXCEPT ![i] = Registered(Invoked(i, c, a), c, a)]
  /\ kept' = KeptAfter(slots'[i])
  /\ UNCHANGED gtest

Clean(i) ==
  /\ slots[i].pc = "idle"
  /\ \E c \in CommandsIn(i, "bazelClean"), w \in {WorkspaceInfo, NoWorkspace} :
       slots' = [slots EXCEPT ![i] = bazelClean(Invoked(i, c, NoAdapter), w)]
  /\ kept' = KeptAfter(slots'[i])
  /\ UNCHANGED gtest

\* The user's answer to the quick pick of slot s: an item, or undefined.
Chosen(s, quickPick) ==
  [s EXCEPT !.picked = IF quickPick = NoAdapter THEN <<>> ELSE <<quickPick>>,
            !.cancelled = (quickPick = NoAdapter)]

\* showQuickPick resolves: the user picked an item, or cancelled (undefined).
QuickPickResolves(i) ==
  /\ slots[i].pc = "prompt"
  /\ \E quickPick \in Offered(slots[i]) \cup {NoAdapter} :
       slots' = [slots EXCEPT ![i] = Picked(Chosen(slots[i], quickPick), quickPick)]
  /\ kept' = KeptAfter(slots'[i])
  /\ UNCHANGED gtest

\* The promise of executeTask resolves in the flow of slot i.
ExecuteTaskResolves(i) ==
  /\ slots[i].pc = "awaitExec"
  /\ slots' = [slots EXCEPT ![i] = executeTaskResolved(slots[i])]
  /\ UNCHANGED <<kept, gtest>>

\* The host: the process of the task of slot j ends with some exit code, once;
\* vscode.tasks.onDidEndTaskProcess calls every registered listener.
TaskProcessEnds(j) ==
  /\ slots[j].tasks # <<>>
  /\ ~slots[j].ended
  /\ \E code \in ExitCodes :
       LET event == [execution |-> ExecutionOf(slots[j]), exitCode |-> code]
           host == [slots EXCEPT ![j].ended = TRUE, ![j].exitCode = code]
       IN slots' = [i \in Slots |-> onDidEndTaskProcess(host[i], event)]
  /\ UNCHANGED <<kept, gtest>>

\* queryOutputs returns in the flow of slot i.
QueryOutputsResolves(i) ==
  /\ slots[i].pc = "querying"
  /\ \E outputs \in QueryResults :
       slots' = [slots EXCEPT ![i] = queryOutputsResolved(slots[i], outputs)]
  /\ UNCHANGED <<kept, gtest>>

Next ==
  \E i \in Slots :
    \/ BuildTarget(i)
    \/ BuildTargetWithDebugging(i)
    \/ BuildPackage(i)
    \/ RunTarget(i)
    \/ TestTarget(i)
    \/ DebugTestTarget(i)
    \/ TestPackage(i)
    \/ Clean(i)
    \/ QuickPickResolves(i)
    \/ ExecuteTaskResolves(i)
    \/ TaskProcessEnds(i)
    \/ QueryOutputsResolves(i)

Spec == Init /\ [][Next]_vars

(***************************************************************************)
(* Repeated invocations: every slot draws from the same commands and the   *)
(* same nodes, so that one command runs several times on one node, one     *)
(* invocation after the other or interleaved at the quick pick.            *)
(***************************************************************************)
BuildPackageAgain(i) ==
  /\ slots[i].pc = "idle"
  /\ \E c \in CommandsOf("buildPackage") \cap RepeatCommands,
        a \in RepeatAdapters \cup {NoAdapter} :
       slots' = [slots EXCEPT ![i] = Registered(Invoked(i, c, a), c, a)]
  /\ kept' = KeptAfter(slots'[i])
  /\ UNCHANGED gtest

TestTargetAgain(i) ==
  /\ slots[i].pc = "idle"
  /\ \E c \in CommandsOf("bazelTestTarget") \cap RepeatCommands,
        a \in RepeatAdapters \cup {NoAdapter} :
       slots' = [slots EXCEPT ![i] = Registered(Invoked(i, c, a), c, a)]
  /\ kept' = KeptAfter(slots'[i])
  /\ UNCHANGED gtest

TestPackageAgain(i) ==
  /\ slots[i].pc = "idle"
  /\ \E c \in CommandsOf("testPackage") \cap RepeatCommands,
        a \in RepeatAdapters \cup {NoAdapter} :
       slots' = [slots EXCEPT ![i] = Registered(Invoked(i, c, a), c, a)]
  /\ kept' = KeptAfter(slots'[i])
  /\ UNCHANGED gtest

NextRepeat ==
  \E i \in Slots :
    \/ BuildPackageAgain(i)
    \/ TestTargetAgain(i)
    \/ TestPackageAgain(i)
    \/ QuickPickResolves(i)
    \/ TaskProcessEnds(i)

SpecRepeat == Init /\ [][NextRepeat]_vars

(***************************************************************************)
(* Reading the sub-tests of a test target: the binary prints its listing,  *)
(* and the tree node parses it into its children.                          *)
(***************************************************************************)
\* The suites and tests a binary may list.
Entries ==
  { Group("GroupA."), Group("GroupB."),
    Case("Case1", <<>>), Case("Case2", <<"comment text">>), Case("Case3", <<>>),
    Case("Case4", <<"GetParam() = #1">>) }

\* The listings of at most MaxLines lines: any order of suites and tests, so
\* also tests before the first suite.
RECURSIVE Listings(_)
Listings(n) ==
  IF n = 0 THEN { <<>> }
  ELSE Listings(n - 1)
         \cup { Append(l, e) : l \in { m \in Listings(n - 1) : Len(m) = n - 1 },
                               e \in Entries }

\* The target whose children are read.
ListedTarget == "//a:t"

InitParse ==
  /\ slots = [i \in Slots |-> BlankSlot(i)]
  /\ kept = [a \in Nodes |-> <<>>]
  /\ gtest \in { [NoListing EXCEPT !.tests = l] : l \in Listings(MaxLines) }

\* execFile(outputs[0], ["--gtest_list_tests"]) resolves with the stdout.
ListTests ==
  /\ gtest.pc = "idle"
  /\ gtest' = [gtest EXCEPT !.pc = "listed", !.stdout = PrintLines(gtest.tests)]
  /\ UNCHANGED <<slots, kept>>

\* return this.parseGtestList(stdout);
ParseGtestList ==
  /\ gtest.pc = "listed"
  /\ gtest' = [gtest EXCEPT !.pc = "parsed",
                             !.children = parseGtestList(gtest.stdout, ListedTarget)]
  /\ UNCHANGED <<slots, kept>>

\* The test commands run on a child.
ChildCommands == {"bazel.testTarget", "bazel.testTargetAsan"}

\* The user runs a test command on one of the children of the tree node.
TestChild ==
  /\ gtest.pc = "parsed"
  /\ slots[1].pc = "idle"
  /\ \E c \in ChildCommands, k \in 1..Len(gtest.children) :
       slots' = [slots EXCEPT ![1] =
                   Registered(Invoked(1, c, gtest.children[k].node), c,
                              gtest.children[k].node)]
  /\ kept' = KeptAfter(slots'[1])
  /\ UNCHANGED gtest

NextParse == ListTests \/ ParseGtestList \/ TestChild

SpecParse == InitParse /\ [][NextParse]_vars

(***************************************************************************)
(* Properties.                                                             *)
(***************************************************************************)
\* The slot runs a call of the handler h.
Runs(s, h) == s.call # <<>> /\ s.call[1].handler = h

\* The slot runs the build-then-debug flow and has submitted its build task.
DebugFlow(s) == Runs(s, "bazelDebugTestTarget") /\ s.tasks # <<>>

\* The slot has called neither queryOutputs nor startDebugging.
NoSideEffect(s) == s.queries = <<>> /\ s.launches = <<>>

\* C1: in the build-then-debug flow, once the process of the submitted build
\* task has ended with a non-zero exit code, the flow has issued no
\* queryOutputs call and no startDebugging call, and never does.
C1_FailedBuildNoQueryNoLaunch ==
  \A i \in Slots :
    (DebugFlow(slots[i]) /\ slots[i].ended /\ slots[i].exitCode # 0)
      => NoSideEffect(slots[i])

\* C1 witness: a flow whose listener was called with its own build's end
\* event, exit code 1, and stopped.
C1_Witness ==
  \E i \in Slots :
    /\ DebugFlow(slots[i])
    /\ slots[i].pc = "stopped"
    /\ Len(slots[i].heard) = 1
    /\ slots[i].heard[1].exitCode = 1

\* C2: with several tasks and flows in flight, a flow's listener acts only on
\* the end event of the execution of the task this flow submitted, on at most
\* one event, and is removed when it does; a flow that is past Building has
\* acted on exactly that event.
C2_OnlyOwnCompletion ==
  \A i \in Slots :
    LET s == slots[i] IN
    /\ Len(s.heard) <= 1
    /\ \A k \in 1..Len(s.heard) :
         /\ s.heard[k].execution.id = s.id
         /\ s.heard[k].execution = ExecutionOf(s)
         /\ s.ended
         /\ ~s.listening
    /\ (Runs(s, "bazelDebugTestTarget")
          /\ (s.pc \in {"stopped", "querying"} \/ ~NoSideEffect(s)))
         => Len(s.heard) = 1

\* C2 witness: two flows built the same target label; the listener of one was
\* called with the end event of the other's build and left it, still waiting
\* for its own, while the other acted on its own event.
C2_Witness ==
  \E i, j \in Slots :
    /\ i # j
    /\ DebugFlow(slots[i]) /\ DebugFlow(slots[j])
    /\ slots[i].tasks[1].targets = slots[j].tasks[1].targets
    /\ slots[i].pc = "listening" /\ slots[i].ignored /\ slots[i].heard = <<>>
    /\ Len(slots[j].heard) = 1

\* The state of the orchestrator's state machine the slot is in.
FlowState(s) ==
  CASE s.pc \in {"idle", "prompt"} -> "Idle"
    [] s.pc \in {"awaitExec", "listening"} -> "Building"
    [] s.pc = "stopped" -> "BuildFailed"
    [] s.pc = "querying" -> "BuildSucceeded"
    [] s.pc = "error" -> "InvalidInvocation"
    [] s.pc = "done" /\ s.cancelled -> "SelectionCancelled"
    [] OTHER -> "Done"

\* The steps of the state machine.  The query returning, the configuration
\* being built and the launch are one step of the code: ArtifactResolved and
\* LaunchConfigured are passed through on the way to Done.
FlowOrder ==
  { <<"Idle", "Building">>, <<"Idle", "InvalidInvocation">>,
    <<"Idle", "SelectionCancelled">>, <<"Building", "BuildFailed">>,
    <<"Building", "BuildSucceeded">>, <<"BuildSucceeded", "Done">> }

\* One step of slot i, from s to t, keeps the order of the flow.
FlowStep(s, t) ==
  /\ FlowState(s) # FlowState(t) => <<FlowState(s), FlowState(t)>> \in FlowOrder
  /\ Len(t.tasks) <= 1 /\ Len(t.queries) <= 1 /\ Len(t.launches) <= 1
  /\ t.tasks # s.tasks => FlowState(s) = "Idle" /\ FlowState(t) = "Building"
  /\ t.queries # s.queries =>
       /\ FlowState(s) = "Building" /\ FlowState(t) = "BuildSucceeded"
       /\ Len(t.heard) = 1
       /\ t.heard[1].execution = ExecutionOf(t)
       /\ t.heard[1].exitCode = 0
  /\ t.launches # s.launches =>
       /\ FlowState(s) = "BuildSucceeded" /\ FlowState(t) = "Done"
       /\ Len(t.queries) = 1 /\ Len(t.outputs) = 1

\* C3: every run of the build-then-debug flow follows the order Idle ->
\* Building -> (BuildFailed | BuildSucceeded) -> ... -> Done: the build is
\* submitted from Idle, the query is issued only when the flow's own build
\* ended with exit code 0, the launch only when that query returned, and
\* each of the three happens at most once.
C3_FlowOrder ==
  [][\A i \in Slots :
       slots'[i].command \in CommandsOf("bazelDebugTestTarget")
         => FlowStep(slots[i], slots'[i])]_vars

\* C3 witness: a flow that went all the way: own build ended with 0, one query
\* that returned one path, one launch.
C3_Witness ==
  \E i \in Slots :
    /\ DebugFlow(slots[i])
    /\ slots[i].pc = "done"
    /\ slots[i].heard[1].exitCode = 0
    /\ slots[i].outputs = << <<"/out/t">> >>
    /\ Len(slots[i].launches) = 1

\* C4: the debug flow called with an adapter whose command options hold zero
\* or several targets throws "invalid number of targets" and has created no
\* task, registered no listener, issued no query and no launch.
C4_TargetCountGuard ==
  \A i \in Slots :
    LET s == slots[i] IN
    (Runs(s, "bazelDebugTestTarget") /\ s.obtained # <<>>
       /\ Len(s.obtained[1].targets) # 1)
      => /\ s.pc = "error"
         /\ s.error = "bug: invalid number of targets passed to bazelDebugTestTarget"
         /\ s.tasks = <<>>
         /\ s.execution = <<>> /\ ~s.listening
         /\ NoSideEffect(s)

\* C4 witness: the debug flow was called with an adapter of two targets.
C4_Witness ==
  \E i \in Slots :
    /\ Runs(slots[i], "bazelDebugTestTarget")
    /\ slots[i].obtained # <<>>
    /\ Len(slots[i].obtained[1].targets) = 2
    /\ slots[i].pc = "error"

\* C5: in the build-then-debug flow, when the build succeeded and the query
\* returned no output path, no debug launch is issued.
C5_NoLaunchWithoutArtifact ==
  \A i \in Slots :
    (DebugFlow(slots[i]) /\ slots[i].outputs = << <<>> >>)
      => slots[i].launches = <<>>

\* What the command c submits when the adapter a is supplied directly.
Direct(c, a) == Registered([BlankSlot(0) EXCEPT !.command = c, !.adapter = a], c, a)

\* C6: for every command that prompts for a missing target, what is submitted
\* after the user picked T (the task, or the debug session of the build with
\* debugging) is what the same command submits when T is supplied directly.
C6_PromptEqualsDirect ==
  \A i \in Slots :
    LET s == slots[i] IN
    (s.picked # <<>> /\ s.pc # "prompt")
      => /\ s.tasks = Direct(s.command, s.picked[1]).tasks
         /\ ~Runs(s, "bazelDebugTestTarget")
              => s.launches = Direct(s.command, s.picked[1]).launches

\* C7: when the command was invoked without a target and the user cancelled
\* the quick pick, the command has ended: one prompt, no task, no listener, no
\* query, no debug session, no error.
C7_CancelIsSilent ==
  \A i \in Slots :
    LET s == slots[i] IN
    s.cancelled
      => /\ s.pc = "done" /\ s.settled
         /\ s.prompts = 1 /\ s.reentries = 0
         /\ s.tasks = <<>> /\ ~s.listening
         /\ NoSideEffect(s)
         /\ s.error = "" /\ s.message = ""

\* C7 witness: a cancelled quick pick.
C7_Witness ==
  \E i \in Slots :
    slots[i].cancelled /\ slots[i].adapter = NoAdapter /\ slots[i].pc = "done"

\* C8: when the command was invoked without a target and the user picked one,
\* the handler has called itself once, the quick pick was shown once and is
\* not shown again, and one task (for the build with debugging: one debug
\* session) has been submitted.
C8_OneReentry ==
  \A i \in Slots :
    LET s == slots[i] IN
    s.picked # <<>>
      => /\ s.prompts = 1 /\ s.reentries = 1
         /\ s.pc # "prompt"
         /\ s.call[1].adapter = s.picked[1]
         /\ IF Runs(s, "bazelBuildTargetWithDebugging")
              THEN s.tasks = <<>> /\ Len(s.launches) = 1
              ELSE Len(s.tasks) = 1

\* C8 witness: a build and a package build that went through the quick pick.
C8_Witness ==
  \E i \in Slots :
    /\ slots[i].picked # <<>>
    /\ Runs(slots[i], "buildPackage")
    /\ slots[i].pc = "done"
    /\ Len(slots[i].tasks) = 1

\* C9: the task bazelTestTarget submits for adapter options O and extra
\* arguments E has the options "--test_arg=" + o for each o of O, in order,
\* followed by E, in order, unprefixed; its verb is the mode and its targets
\* are the adapter's.
C9_WrapThenAppend ==
  \A i \in Slots :
    LET s == slots[i] IN
    (Runs(s, "bazelTestTarget") /\ s.tasks # <<>>)
      => LET O == s.obtained[1].options
             E == s.call[1].extraArgs
             opts == s.tasks[1].options
         IN /\ Len(s.tasks) = 1
            /\ Len(opts) = Len(O) + Len(E)
            /\ \A k \in 1..Len(O) : opts[k] = "--test_arg=" \o O[k]
            /\ \A k \in 1..Len(E) : opts[Len(O) + k] = E[k]
            /\ s.tasks[1].command = s.call[1].mode
            /\ s.tasks[1].targets = s.obtained[1].targets

\* C9 witness: O = ["--foo"], E = ["--config=clang-asan"].
C9_Witness ==
  \E i \in Slots :
    /\ Runs(slots[i], "bazelTestTarget")
    /\ slots[i].tasks # <<>>
    /\ slots[i].obtained[1].options = <<"--foo">>
    /\ slots[i].tasks[1].command = "test"
    /\ slots[i].tasks[1].options = <<"--test_arg=--foo", "--config=clang-asan">>

\* C10: after a handler has run, the value it obtained from
\* adapter.getBazelCommandOptions() is as the adapter returned it: the same
\* options and the same targets.
C10_ObtainedValueUnchanged ==
  \A i \in Slots :
    slots[i].obtained # <<>> => slots[i].commandOptions = slots[i].obtained

\* The slot runs a package-level handler and has obtained its options.
PackageCall(s) ==
  (Runs(s, "buildPackage") \/ Runs(s, "testPackage")) /\ s.obtained # <<>>

\* C11: a package-level handler submits one task whose targets are the
\* obtained targets, each followed by the suffix, and whose options and
\* workspace are the obtained ones; the obtained value itself stays as the
\* adapter returned it, without the suffix; and two invocations of the same
\* command on the same node submit the same task.
C11_SuffixOnEveryTarget ==
  /\ \A i \in Slots :
       LET s == slots[i] IN
       PackageCall(s)
         => LET O == s.obtained[1]
                task == s.tasks[1]
                suffix == s.call[1].suffix
            IN /\ Len(s.tasks) = 1
               /\ Len(task.targets) = Len(O.targets)
               /\ \A k \in 1..Len(O.targets) : task.targets[k] = O.targets[k] \o suffix
               /\ task.options = O.options
               /\ task.workspaceInfo = O.workspaceInfo
               /\ s.commandOptions = s.obtained
               /\ O = CommandOptionsLiteral(s.call[1].adapter)
  /\ \A i, j \in Slots :
       (/\ PackageCall(slots[i]) /\ PackageCall(slots[j])
        /\ slots[i].command = slots[j].command
        /\ slots[i].call[1].adapter = slots[j].call[1].adapter)
         => slots[i].tasks = slots[j].tasks

\* C11 witness: bazel.buildAll was invoked twice on the node with the targets
\* //a:t and //a:u; both invocations submitted //a:t:all and //a:u:all.
C11_Witness ==
  \E i, j \in Slots :
    /\ i # j
    /\ slots[i].command = "bazel.buildAll" /\ slots[j].command = "bazel.buildAll"
    /\ PackageCall(slots[i]) /\ PackageCall(slots[j])
    /\ slots[i].obtained[1].targets = <<"//a:t", "//a:u">>
    /\ slots[j].obtained[1].targets = <<"//a:t", "//a:u">>
    /\ slots[i].tasks[1].targets = <<"//a:t:all", "//a:u:all">>
    /\ slots[j].tasks[1].targets = <<"//a:t:all", "//a:u:all">>

\* C12: in the build-then-debug flow called with the extra flags E on an
\* adapter with the options O, the options of the build task are
\* --compilation_mode, dbg and then E, none of them is an element of O, and the
\* args of every debug launch are O, in order.
C12_OptionsDeferredToLaunch ==
  \A i \in Slots :
    LET s == slots[i] IN
    DebugFlow(s)
      => LET O == s.obtained[1].options
             E == s.call[1].extraArgs
             opts == s.tasks[1].options
         IN /\ Len(s.tasks) = 1
            /\ opts = <<"--compilation_mode", "dbg">> \o E
            /\ \A k \in 1..Len(O), n \in 1..Len(opts) : opts[n] # O[k]
            /\ \A l \in 1..Len(s.launches) : s.launches[l].args = O

\* C12 witness: bazel.debugTestTargetAsan on the sub-test node G.c1 has built
\* with the asan flag and launched the debugger with the filter.
C12_Witness ==
  \E i \in Slots :
    /\ DebugFlow(slots[i])
    /\ slots[i].tasks[1].options = <<"--compilation_mode", "dbg", "--config=clang-asan">>
    /\ Len(slots[i].launches) = 1
    /\ slots[i].launches[1].args = <<"--gtest_filter=G.c1">>

\* C13: a build, run, test or coverage handler that obtained Command Options
\* with no target has failed with an error and has submitted no task.
C13_ZeroTargetsRejected ==
  \A i \in Slots :
    LET s == slots[i] IN
    (/\ Runs(s, "bazelBuildTarget") \/ Runs(s, "bazelRunTarget")
          \/ Runs(s, "bazelTestTarget")
     /\ s.obtained # <<>>
     /\ s.obtained[1].targets = <<>>)
      => (s.pc = "error" /\ s.error # "" /\ s.tasks = <<>>)

\* C14: a handler other than the build-then-debug flow has returned as soon as
\* it has submitted its task, whether or not the task's process has ended; the
\* build-then-debug flow has not settled before its listener was called with
\* the end event of its task.
C14_FireAndForget ==
  \A i \in Slots :
    LET s == slots[i] IN
    s.tasks # <<>>
      => IF Runs(s, "bazelDebugTestTarget")
           THEN s.settled => (s.ended /\ s.heard # <<>>)
           ELSE s.settled /\ s.pc = "done"

\* C14 witness: bazelClean has returned while its task still runs, and beside
\* it a build-then-debug flow waits for the end of its build.
C14_Witness ==
  \E i, j \in Slots :
    /\ Runs(slots[i], "bazelClean")
    /\ slots[i].tasks # <<>> /\ ~slots[i].ended /\ slots[i].settled
    /\ DebugFlow(slots[j])
    /\ ~slots[j].ended /\ ~slots[j].settled

\* The lines of the listing that are tests.
CaseLines(tests) == { k \in 1..Len(tests) : tests[k].kind = "case" }

\* The name of the last suite listed before line k, if there is one.
GroupBefore(tests, k) ==
  LET before == { h \in 1..(k - 1) : tests[h].kind = "group" } IN
  IF before = {} THEN ""
  ELSE tests[CHOOSE h \in before : \A o \in before : o <= h].name

\* The position among the tests of the test listed on line k.
Rank(tests, k) == Cardinality({ c \in CaseLines(tests) : c <= k })

\* The listing of section 8 of the specification.
Canonical ==
  << Group("GroupA."), Case("Case1", <<>>), Case("Case2", <<"comment text">>),
     Group("GroupB."), Case("Case3", <<>>) >>

\* C15: for every test line with a '#', the child's name is the current suite
\* followed by the trimmed text before the first '#', and its comment is the
\* trimmed text after the first '#', further '#' characters included.
C15_SplitOnFirstHash ==
  gtest.pc = "parsed"
    => \A k \in CaseLines(gtest.tests) :
         gtest.tests[k].comment # <<>>
           => LET child == gtest.children[Rank(gtest.tests, k)] IN
              /\ child.node.testName =
                   GroupBefore(gtest.tests, k) \o gtest.tests[k].name
              /\ child.comment = gtest.tests[k].comment

\* C16: the children are the tests of the listing, one per test line and in
\* the order of the lines, none for a suite line; the name of each is the name
\* of the last suite listed before it followed by the name of the test; the
\* canonical listing gives GroupA.Case1, GroupA.Case2 with the comment
\* "comment text", and GroupB.Case3.
C16_OneChildPerCaseLine ==
  gtest.pc = "parsed"
    => /\ Len(gtest.children) = Cardinality(CaseLines(gtest.tests))
       /\ \A k \in CaseLines(gtest.tests) :
            gtest.children[Rank(gtest.tests, k)].node =
              GTestItem(ListedTarget, GroupBefore(gtest.tests, k) \o gtest.tests[k].name)
       /\ gtest.tests = Canonical
            => gtest.children =
                 << [node |-> GTestItem(ListedTarget, "GroupA.Case1"), comment |-> <<>>],
                    [node |-> GTestItem(ListedTarget, "GroupA.Case2"),
                     comment |-> <<"comment text">>],
                    [node |-> GTestItem(ListedTarget, "GroupB.Case3"), comment |-> <<>>] >>

\* C16 witness: the canonical listing was parsed into its three children.
C16_Witness ==
  /\ gtest.pc = "parsed"
  /\ gtest.tests = Canonical
  /\ Len(gtest.children) = 3
  /\ gtest.children[2].node.testName = "GroupA.Case2"

\* The children a listing of the entries can have.
Children ==
  { BazelGTestTreeItem(ListedTarget, g \o e.name, e.comment) :
      g \in {""} \cup { h.name : h \in { x \in Entries : x.kind = "group" } },
      e \in { x \in Entries : x.kind = "case" } }
    \cup { BazelGTestTreeItem(ListedTarget, g \o e.name, <<>>) :
             g \in {""} \cup { h.name : h \in { x \in Entries : x.kind = "group" } },
             e \in { x \in Entries : x.kind = "case" } }

\* C17: parseGtestList returns for every listing; for the empty text it
\* returns no child; for a listing that starts with a test line its first
\* child is named by the test alone.
C17_ParserIsTotal ==
  /\ gtest.pc = "listed"
       => parseGtestList(gtest.stdout, ListedTarget) \in Seq(Children)
  /\ gtest.pc = "parsed"
       => /\ gtest.children \in Seq(Children)
          /\ gtest.stdout = "" => gtest.children = <<>>
          /\ (gtest.tests # <<>> /\ gtest.tests[1].kind = "case")
               => /\ gtest.children # <<>>
                  /\ gtest.children[1].node.testName = gtest.tests[1].name

\* C17 witness: a listing whose first line is the test Case1 was parsed.
C17_Witness ==
  /\ gtest.pc = "parsed"
  /\ gtest.tests # <<>>
  /\ gtest.tests[1] = Case("Case1", <<>>)
  /\ gtest.children[1].node.testName = "Case1"

\* C18: the promise of a build-then-debug flow settles once its build has
\* completed, whatever the exit code: when the flow's listener has acted on the
\* end of the build and no output query is outstanding, nothing is left that
\* the flow waits for, and the promise has settled.
C18_FlowSettles ==
  \A i \in Slots :
    LET s == slots[i] IN
    (DebugFlow(s) /\ s.heard # <<>> /\ s.pc # "querying") => s.settled

\* C19: a build-then-debug flow whose build has ended with exit code 0, at any
\* moment after the task was submitted, issues the debug launch exactly once:
\* when the continuation of executeTask has run and no output query is
\* outstanding, there is exactly one launch.
C19_LaunchOnceAfterSuccess ==
  \A i \in Slots :
    LET s == slots[i] IN
    (/\ DebugFlow(s)
     /\ s.ended /\ s.exitCode = 0
     /\ s.pc \notin {"awaitExec", "querying"})
      => Len(s.launches) = 1

\* The slot runs bazelTestTarget and has submitted its task.
TestCall(s) == Runs(s, "bazelTestTarget") /\ s.tasks # <<>>

\* C20: however often a test or coverage command has been invoked on a node,
\* every invocation submits the options the node's own fields give, each
\* prefixed once with --test_arg=, followed once by the extra flags of the
\* call; two invocations of one command on one node submit the same task.
C20_NoAccumulation ==
  /\ \A i \in Slots :
       LET s == slots[i] IN
       TestCall(s)
         => LET O == CommandOptionsLiteral(s.call[1].adapter).options
                E == s.call[1].extraArgs
                opts == s.tasks[1].options
            IN /\ Len(s.tasks) = 1
               /\ Len(opts) = Len(O) + Len(E)
               /\ \A k \in 1..Len(O) : opts[k] = "--test_arg=" \o O[k]
               /\ \A k \in 1..Len(E) : opts[Len(O) + k] = E[k]
  /\ \A i, j \in Slots :
       (/\ TestCall(slots[i]) /\ TestCall(slots[j])
        /\ slots[i].command = slots[j].command
        /\ slots[i].adapter = slots[j].adapter
        /\ slots[i].call[1].adapter = slots[j].call[1].adapter)
         => slots[i].tasks = slots[j].tasks

\* C20 witness: bazel.testTargetAsan was invoked twice on the sub-test node
\* G.c1, and both invocations submitted the filter prefixed once and the asan
\* flag once.
C20_Witness ==
  \E i, j \in Slots :
    /\ i # j
    /\ slots[i].command = "bazel.testTargetAsan"
    /\ slots[j].command = "bazel.testTargetAsan"
    /\ slots[i].adapter = GTestItem("//a:t", "G.c1")
    /\ slots[j].adapter = GTestItem("//a:t", "G.c1")
    /\ TestCall(slots[i]) /\ TestCall(slots[j])
    /\ slots[i].tasks[1].options =
         <<"--test_arg=--gtest_filter=G.c1", "--config=clang-asan">>
    /\ slots[j].tasks[1].options =
         <<"--test_arg=--gtest_filter=G.c1", "--config=clang-asan">>

\* The qualified name of the test listed on line k.
QualifiedName(tests, k) == GroupBefore(tests, k) \o tests[k].name

\* C21: the Command Options of the child made for a test line have one target,
\* the label of the parent target, the parent's workspace, and one option, the
\* filter flag of the test's qualified name; a test command run on a child
\* submits that one option prefixed with --test_arg=, then the extra flags of
\* the command, for that one target and workspace.
C21_ChildCommandOptions ==
  gtest.pc = "parsed"
    => /\ \A k \in CaseLines(gtest.tests) :
            LET O == getBazelCommandOptions(
                       gtest.children[Rank(gtest.tests, k)].node)
            IN /\ O.targets = <<ListedTarget>>
               /\ O.workspaceInfo = WorkspaceInfo
               /\ O.options =
                    <<"--gtest_filter=" \o QualifiedName(gtest.tests, k)>>
       /\ \A i \in Slots :
            LET s == slots[i] IN
            TestCall(s)
              => /\ Len(s.tasks) = 1
                 /\ s.tasks[1].targets = <<ListedTarget>>
                 /\ s.tasks[1].workspaceInfo = WorkspaceInfo
                 /\ \E k \in CaseLines(gtest.tests) :
                      /\ s.adapter = gtest.children[Rank(gtest.tests, k)].node
                      /\ s.tasks[1].options =
                           <<"--test_arg=--gtest_filter="
                               \o QualifiedName(gtest.tests, k)>>
                             \o Commands[s.command].extraArgs

\* C21 witness: bazel.testTargetAsan was run on the child GroupA.Case2 of the
\* canonical listing.
C21_Witness ==
  /\ gtest.pc = "parsed"
  /\ gtest.tests = Canonical
  /\ TestCall(slots[1])
  /\ slots[1].adapter = GTestItem(ListedTarget, "GroupA.Case2")
  /\ slots[1].tasks[1].options =
       <<"--test_arg=--gtest_filter=GroupA.Case2", "--config=clang-asan">>

====
